---- MODULE Spec2Model ----
(***************************************************************************)
(* A model of the WhatsApp chat analyzer component (src/src/App.js; the    *)
(* variant src/unnamed/part_000 has the same handlers): the upload         *)
(* handler with its FileReader and Papa.parse callbacks, parseDate, the    *)
(* ingestion sort, calculateStats, the search box and the date groups of   *)
(* the chat view.                                                          *)
(*                                                                         *)
(* Conventions.                                                            *)
(*  - A JavaScript string that the code takes apart or uses as the name of *)
(*    a property (date, time, hour, message, search text, words) is a      *)
(*    sequence of one-character strings; weekday, sender and column        *)
(*    names are TLA+ strings, the sender "__proto__" standing for the one  *)
(*    name the code's count objects treat differently.                     *)
(*  - A plain object is the sequence of its own properties [key, value]    *)
(*    in creation order.                                                   *)
(*  - A sort whose comparator is no ordering of the elements (it meets an  *)
(*    Invalid Date) may leave any permutation: the ECMAScript standard     *)
(*    leaves the order to the engine.                                      *)
(*  - A JavaScript number is a record [nan, v]: NaN is [nan |-> TRUE].     *)
(*  - A Date is its time value, a number, in MINUTES since the epoch (the  *)
(*    code builds dates from year, month, day, hours and minutes only);    *)
(*    the local time zone is taken to be UTC.                              *)
(***************************************************************************)
EXTENDS Integers, Sequences, FiniteSets, TLC

----------------------------------------------------------------------------
(* Bounds of the model. *)

\* the longest file (data rows) of the ingestion scenarios
MaxRows == 3
\* uploads the user starts in the lifecycle scenarios
MaxUploads == 2
\* minutes the clock may advance past Now0
MaxTicks == 1
\* the longest file (data rows) of the statistics scenarios
MaxStatRows == 4
\* the longest file (data rows) of the date scenarios
MaxDateRows == 3
\* the longest file (data rows) of the word scenarios
MaxWordRows == 3
\* the longest file (data rows) of the sender and hour scenarios
MaxSenderRows == 3
\* the longest file (data rows) of the search scenarios
MaxSearchRows == 3
\* the longest file (lines below the header) of the blank line scenarios
MaxLines == 4

----------------------------------------------------------------------------
(* JavaScript numbers, with NaN. *)

NaN == [nan |-> TRUE, v |-> 0]

Num(n) == [nan |-> FALSE, v |-> n]

\* x - y
Sub(x, y) == IF x.nan \/ y.nan THEN NaN ELSE Num(x.v - y.v)

\* x + n, n an integer literal of the code
AddInt(x, n) == IF x.nan THEN NaN ELSE Num(x.v + n)

\* x > n and x < n: false when x is NaN
GtInt(x, n) == ~x.nan /\ x.v > n

LtInt(x, n) == ~x.nan /\ x.v < n

----------------------------------------------------------------------------
(* Strings as character sequences. *)

DigitChars == <<"0", "1", "2", "3", "4", "5", "6", "7", "8", "9">>

DigitSet == {DigitChars[d] : d \in 1..10}

IsDigit(c) == c \in DigitSet

DigitValues == [c \in DigitSet |-> (CHOOSE d \in 1..10 : DigitChars[d] = c) - 1]

DigitVal(c) == DigitValues[c]

SpaceSet == {" ", "\t", "\n"}

IsSpace(c) == c \in SpaceSet

\* String.prototype.includes(c) for a one-character c
Includes(s, c) == \E i \in 1..Len(s) : s[i] = c

\* String.prototype.split(c) for a one-character separator c: the pieces
\* between the separators, n separators giving n + 1 pieces
RECURSIVE SplitFrom(_, _, _, _)
SplitFrom(s, c, i, cur) ==
    IF i > Len(s) THEN <<cur>>
    ELSE IF s[i] = c THEN <<cur>> \o SplitFrom(s, c, i + 1, <<>>)
    ELSE SplitFrom(s, c, i + 1, Append(cur, s[i]))

Split(s, c) == SplitFrom(s, c, 1, <<>>)

\* the value of the longest run of digits of s that starts at position i
RECURSIVE DigitsFrom(_, _, _)
DigitsFrom(s, i, acc) ==
    IF i > Len(s) \/ ~IsDigit(s[i]) THEN acc
    ELSE DigitsFrom(s, i + 1, 10 * acc + DigitVal(s[i]))

RECURSIVE SkipSpace(_, _)
SkipSpace(s, i) ==
    IF i <= Len(s) /\ IsSpace(s[i]) THEN SkipSpace(s, i + 1) ELSE i

\* parseInt(s, 10): leading white space, an optional sign, then the longest
\* run of decimal digits; NaN when there is no digit there.  (parseInt(s)
\* without a radix differs only on a "0x" prefix, which no string of the
\* model has.)
ParseInt(s) ==
    LET i == SkipSpace(s, 1)
        neg == i <= Len(s) /\ s[i] = "-"
        j == IF i <= Len(s) /\ s[i] \in {"-", "+"} THEN i + 1 ELSE i
    IN  IF j > Len(s) \/ ~IsDigit(s[j]) THEN NaN
        ELSE Num((IF neg THEN -1 ELSE 1) * DigitsFrom(s, j, 0))

----------------------------------------------------------------------------
(* The Date constructor, new Date(year, month, day, hours, minutes), in    *)
(* minutes since the epoch.                                                *)

\* ECMAScript DayFromYear: the day number of 1 January of year y
DayFromYear(y) ==
    365 * (y - 1970) + ((y - 1969) \div 4) - ((y - 1901) \div 100)
        + ((y - 1601) \div 400)

IsLeap(y) == (y % 4 = 0) /\ ((y % 100 # 0) \/ (y % 400 = 0))

\* days before the first of month m (0-indexed) in a common year
MonthStart == <<0, 31, 59, 90, 120, 151, 181, 212, 243, 273, 304, 334>>

\* ECMAScript MakeDay: months outside 0..11 carry into the year, days
\* outside the month carry into the following (or preceding) months
MakeDay(year, month, day) ==
    LET ym == year + (month \div 12)
        mn == month % 12
    IN  DayFromYear(ym) + MonthStart[mn + 1]
          + (IF mn >= 2 /\ IsLeap(ym) THEN 1 ELSE 0) + (day - 1)

\* new Date(year, month, day, hours, minutes): NaN (an Invalid Date) when any
\* argument is NaN; a year of 0..99 means 1900 + year.  (TimeClip, which
\* makes a time value beyond 8.64e15 ms invalid, is out of reach of the
\* dates of the model.)
DateFromParts(year, month, day, hours, minutes) ==
    IF year.nan \/ month.nan \/ day.nan \/ hours.nan \/ minutes.nan THEN NaN
    ELSE LET yr == IF year.v >= 0 /\ year.v <= 99 THEN 1900 + year.v
                   ELSE year.v
         IN  Num(MakeDay(yr, month.v, day.v) * 1440 + hours.v * 60 + minutes.v)

\* Date.prototype.getFullYear of a valid time value t
GetFullYear(t) ==
    LET d == t.v \div 1440
        a == 1970 + (d \div 365)
        b == 1970 + (d \div 366)
        lo == (IF a < b THEN a ELSE b) - 1
        hi == (IF a < b THEN b ELSE a) + 1
    IN  CHOOSE y \in lo..hi : DayFromYear(y) <= d /\ d < DayFromYear(y + 1)

\* Date.prototype.getMonth (0-indexed) of a valid time value t
GetMonth(t) ==
    LET y == GetFullYear(t)
        d == (t.v \div 1440) - DayFromYear(y)
        start(m) == MonthStart[m + 1] + (IF m >= 2 /\ IsLeap(y) THEN 1 ELSE 0)
    IN  CHOOSE m \in 0..11 :
            start(m) <= d /\ (m = 11 \/ d < start(m + 1))

----------------------------------------------------------------------------
(* parseDate and the timestamp of a row. *)

\* a variant of parseDate that returns null wherever the date has no known
\* format
parseDateNullFallback(dateStr, timeStr, clock) ==
    IF dateStr = <<>> THEN [null |-> TRUE, t |-> NaN]
    ELSE IF ~Includes(dateStr, "/") /\ ~Includes(dateStr, "-")
         THEN [null |-> TRUE, t |-> NaN]
    ELSE LET dateParts == IF Includes(dateStr, "/") THEN Split(dateStr, "/")
                          ELSE Split(dateStr, "-")
         IN  IF Len(dateParts) # 3 THEN [null |-> TRUE, t |-> NaN]
             ELSE [null |-> FALSE,
                   t |-> DateFromParts(ParseInt(dateParts[3]),
                            AddInt(ParseInt(dateParts[2]), -1),
                            ParseInt(dateParts[1]), Num(0), Num(0))]

\* parseDate(dateStr, timeStr), given the current time `clock` that
\* new Date() returns: [null |-> TRUE] for the code's null, else the Date
parseDate(dateStr, timeStr, clock) ==
    IF dateStr = <<>> THEN [null |-> TRUE, t |-> NaN]
    ELSE IF ~Includes(dateStr, "/") /\ ~Includes(dateStr, "-")
         THEN [null |-> FALSE, t |-> clock]
    ELSE LET dateParts == IF Includes(dateStr, "/") THEN Split(dateStr, "/")
                          ELSE Split(dateStr, "-")
         IN  IF Len(dateParts) # 3 THEN [null |-> FALSE, t |-> clock]
             ELSE LET day == ParseInt(dateParts[1])
                      month == AddInt(ParseInt(dateParts[2]), -1)
                      year0 == ParseInt(dateParts[3])
                      year == IF GtInt(ParseInt(dateParts[1]), 12) THEN year0
                              ELSE IF LtInt(year0, 100) THEN AddInt(year0, 2000)
                              ELSE year0
                      timeParts == Split(timeStr, ":")
                      hasTime == timeStr # <<>> /\ Len(timeParts) >= 2
                      hours == IF hasTime THEN ParseInt(timeParts[1]) ELSE Num(0)
                      minutes == IF hasTime THEN ParseInt(timeParts[2]) ELSE Num(0)
                  IN  [null |-> FALSE,
                       t |-> DateFromParts(year, month, day, hours, minutes)]

\* new Date(x) for x a Date or null: a copy of the Date; new Date(null) is
\* the epoch, time value 0
NewDate(x) == IF x.null THEN Num(0) ELSE x.t

----------------------------------------------------------------------------
(* The ingestion sort.                                                     *)

\* the comparator (a, b) => a.datetime - b.datetime
compare(a, b) == Sub(a.datetime, b.datetime)

\* how Array.prototype.sort reads the comparator's result: NaN counts as +0
CmpLess(a, b) == LET v == compare(a, b) IN ~v.nan /\ v.v < 0

CmpEqual(a, b) == LET v == compare(a, b) IN v.nan \/ v.v = 0

Range(arr) == {arr[i] : i \in 1..Len(arr)}

\* ECMA-262 "consistent comparator" for the elements of arr: the comparator's
\* "equal" is an equivalence and its "less" is transitive
ConsistentComparator(arr) ==
    \A a, b, c \in Range(arr) :
        /\ (CmpEqual(a, b) /\ CmpEqual(b, c)) => CmpEqual(a, c)
        /\ (CmpLess(a, b) /\ CmpLess(b, c)) => CmpLess(a, c)
        /\ (CmpLess(b, a) /\ CmpLess(c, b)) => CmpLess(c, a)

\* a variant of InsertStable that puts x before the elements equal to it
InsertBeforeEqual(s, x) ==
    LET after == {i \in 1..Len(s) : ~CmpLess(s[i], x)}
        k == IF after = {} THEN Len(s) + 1
             ELSE CHOOSE i \in after : \A j \in after : i <= j
    IN  SubSeq(s, 1, k - 1) \o <<x>> \o SubSeq(s, k, Len(s))

\* x put into the sorted s behind every element that is not greater than it
InsertStable(s, x) ==
    LET after == {i \in 1..Len(s) : CmpLess(x, s[i])}
        k == IF after = {} THEN Len(s) + 1
             ELSE CHOOSE i \in after : \A j \in after : i <= j
    IN  SubSeq(s, 1, k - 1) \o <<x>> \o SubSeq(s, k, Len(s))

RECURSIVE StableSortFrom(_, _, _)
StableSortFrom(arr, i, acc) ==
    IF i > Len(arr) THEN acc
    ELSE StableSortFrom(arr, i + 1, InsertStable(acc, arr[i]))

\* the sorted array when the comparator is consistent: ascending, elements
\* that compare equal in their original order (ECMA-262 requires the sort
\* to be stable)
StableSort(arr) == StableSortFrom(arr, 1, <<>>)

PermutationsOf(arr) ==
    {[i \in 1..Len(arr) |-> arr[p[i]]] : p \in Permutations(1..Len(arr))}

\* arr.sort(compare): with a comparator that is not consistent for the
\* elements (an Invalid Date among valid ones of different times) the order
\* is implementation-defined, any permutation of the elements
SortOutcomes(arr) ==
    IF ConsistentComparator(arr) THEN {StableSort(arr)}
    ELSE PermutationsOf(arr)

----------------------------------------------------------------------------
(* calculateStats: the fields of the statistics object.                    *)

\* the keys of messagesByWeekday, in the order Object.keys gives them
WeekdayNames ==
    <<"Sunday", "Monday", "Tuesday", "Wednesday", "Thursday", "Friday",
      "Saturday">>

\* messagesByWeekday[day]: the rows whose weekday is day
WeekdayCount(data, day) == Cardinality({i \in 1..Len(data) : data[i].weekday = day})

\* a variant of WeekdayDays that counts every row as a day of its own
WeekdayDaysPerRow(data, day) == {j \in 1..Len(data) : data[j].weekday = day}

\* daysByWeekday[day]: the set of the date strings of those rows
WeekdayDays(data, day) == {data[i].date : i \in {j \in 1..Len(data) : data[j].weekday = day}}

\* parseFloat((n / d).toFixed(1)), in tenths: n / d rounded to one decimal,
\* a tie rounded up (toFixed takes the larger candidate; the ties n / d can
\* have with d below 20 are multiples of 0.25, which a double holds exactly)
ToFixed1(n, d) == (20 * n + d) \div (2 * d)

\* avgMessagesByWeekday[day] after toFixed(1), in tenths
WeekdayAvg(data, day) ==
    LET daysCount == Cardinality(WeekdayDays(data, day))
    IN  IF daysCount > 0 THEN ToFixed1(WeekdayCount(data, day), daysCount)
        ELSE 0

weekdayData(data) ==
    [k \in 1..7 |-> [day |-> WeekdayNames[k],
                     avg |-> WeekdayAvg(data, WeekdayNames[k])]]

\* a variant of hourCounts that counts an hour of 24 or more in the last
\* entry
hourCountsClamped(hours) ==
    [k \in 1..24 |->
        [hour |-> k - 1,
         count |-> Cardinality({i \in 1..Len(hours) :
                      /\ ~hours[i].nan
                      /\ \/ hours[i].v = k - 1
                         \/ k = 24 /\ hours[i].v >= 24})]]

\* messagesByHour[h]: the rows whose hour parses to h, 0 <= h < 24
hourCounts(hours) ==
    [k \in 1..24 |->
        [hour |-> k - 1,
         count |-> Cardinality({i \in 1..Len(hours) :
                      ~hours[i].nan /\ hours[i].v = k - 1})]]

hourData(data) == hourCounts([i \in 1..Len(data) |-> ParseInt(data[i].hour)])

\* [...new Set(data.map(row => row.sender))]: the senders in the order of
\* their first row
RECURSIVE uniqueSendersFrom(_, _, _)
uniqueSendersFrom(data, i, acc) ==
    IF i > Len(data) THEN acc
    ELSE uniqueSendersFrom(data, i + 1,
            IF \E k \in 1..Len(acc) : acc[k] = data[i].sender THEN acc
            ELSE Append(acc, data[i].sender))

uniqueSenders(data) == uniqueSendersFrom(data, 1, <<>>)

\* message.split(/\s+/).length: the pieces of the split, the empty ones
\* too
WordCountPieces(message) ==
    IF message = <<>> THEN 1
    ELSE Cardinality({i \in 1..Len(message) :
             ~IsSpace(message[i]) /\ (i = 1 \/ IsSpace(message[i - 1]))})
         + (IF IsSpace(message[1]) THEN 1 ELSE 0)
         + (IF IsSpace(message[Len(message)]) THEN 1 ELSE 0)

\* message.split(/\s+/).filter(word => word.length > 0).length: the maximal
\* runs of characters that are not white space
WordCount(message) ==
    Cardinality({i \in 1..Len(message) :
        ~IsSpace(message[i]) /\ (i = 1 \/ IsSpace(message[i - 1]))})

\* a variant of SumWords without the test for an empty message and without
\* the filter of the empty pieces
RECURSIVE SumWordsUnguarded(_, _, _)
SumWordsUnguarded(data, sender, i) ==
    IF i > Len(data) THEN 0
    ELSE (IF data[i].sender = sender THEN WordCountPieces(data[i].message)
          ELSE 0)
            + SumWordsUnguarded(data, sender, i + 1)

\* messages.reduce((total, message) => ..., 0) over the messages of the
\* sender from row i on: an empty message is falsy and leaves the total
RECURSIVE SumWords(_, _, _)
SumWords(data, sender, i) ==
    IF i > Len(data) THEN 0
    ELSE (IF data[i].sender = sender /\ data[i].message # <<>>
          THEN WordCount(data[i].message) ELSE 0)
            + SumWords(data, sender, i + 1)

\* obj[sender] = count on a plain object and obj[sender] read back: the
\* write to __proto__ is ignored for a number and the read gives
\* Object.prototype, which is no number (NaN stands for it here)
StoredCount(sender, count) == IF sender = "__proto__" THEN NaN ELSE Num(count)

senderData(data) ==
    LET senders == uniqueSenders(data)
    IN  [k \in 1..Len(senders) |->
            [name |-> senders[k],
             messages |-> StoredCount(senders[k],
                              Cardinality({i \in 1..Len(data) :
                                              data[i].sender = senders[k]})),
             words |-> StoredCount(senders[k], SumWords(data, senders[k], 1))]]

\* A plain object ({}) that the code uses as a map from strings to counts:
\* its own properties, a sequence of [key, value] in the order in which they
\* were created.  The names below are not own properties but are found on
\* every such object, inherited from Object.prototype.
ProtoKey == <<"_", "_", "p", "r", "o", "t", "o", "_", "_">>

ObjectPrototypeKeys ==
    {<<"c", "o", "n", "s", "t", "r", "u", "c", "t", "o", "r">>, <<"t", "o", "S", "t", "r", "i", "n", "g">>, <<"v", "a", "l", "u", "e", "O", "f">>, <<"h", "a", "s", "O", "w", "n", "P", "r", "o", "p", "e", "r", "t", "y">>,
     <<"i", "s", "P", "r", "o", "t", "o", "t", "y", "p", "e", "O", "f">>, <<"p", "r", "o", "p", "e", "r", "t", "y", "I", "s", "E", "n", "u", "m", "e", "r", "a", "b", "l", "e">>, <<"t", "o", "L", "o", "c", "a", "l", "e", "S", "t", "r", "i", "n", "g">>, ProtoKey}

OwnIndex(obj, key) == {i \in 1..Len(obj) : obj[i].key = key}

\* if (!obj[key]) { obj[key] = 0; }  obj[key]++;
\* an own count that is 0 or NaN is falsy and starts again from 0; a name
\* that is not own but inherited reads as the inherited function or object,
\* which is truthy and which ++ turns into NaN (the write to __proto__, whose
\* setter takes objects only, is ignored)
CountUp(obj, key) ==
    IF OwnIndex(obj, key) # {}
    THEN LET i == CHOOSE k \in OwnIndex(obj, key) : TRUE
             old == obj[i].value
         IN  [obj EXCEPT ![i].value =
                  IF old.nan \/ old.v = 0 THEN Num(1) ELSE AddInt(old, 1)]
    ELSE IF key \in ObjectPrototypeKeys
         THEN IF key = ProtoKey THEN obj
              ELSE Append(obj, [key |-> key, value |-> NaN])
    ELSE Append(obj, [key |-> key, value |-> Num(1)])

\* the keys from position lo to position hi counted into obj, one after the
\* other: the first half of the range, then the second half into the object
\* the first half has given (halving keeps the evaluation shallow)
RECURSIVE CountAll(_, _, _, _)
CountAll(keys, lo, hi, obj) ==
    IF lo > hi THEN obj
    ELSE IF lo = hi THEN CountUp(obj, keys[lo])
    ELSE LET mid == (lo + hi) \div 2
         IN  CHOOSE result \in {CountAll(keys, mid + 1, hi, half) :
                                   half \in {CountAll(keys, lo, mid, obj)}} : TRUE

CountKeys(keys) == CountAll(keys, 1, Len(keys), <<>>)

\* the largest array index, 2^32 - 2
MaxArrayIndex == <<"4", "2", "9", "4", "9", "6", "7", "2", "9", "4">>

\* a < b for digit strings without leading zeros
IndexLess(a, b) ==
    \/ Len(a) < Len(b)
    \/ /\ Len(a) = Len(b)
       /\ \E i \in 1..Len(a) :
            /\ DigitVal(a[i]) < DigitVal(b[i])
            /\ \A j \in 1..(i - 1) : a[j] = b[j]

\* the key is an array index: the canonical decimal form of an integer from
\* 0 to 2^32 - 2
IsArrayIndex(key) ==
    /\ Len(key) > 0
    /\ \A i \in 1..Len(key) : IsDigit(key[i])
    /\ Len(key) > 1 => key[1] # "0"
    /\ ~IndexLess(MaxArrayIndex, key)

\* Object.entries(obj): the properties whose keys are array indices first,
\* in ascending numeric order, then the others in creation order
ObjectEntries(obj) ==
    LET idx == {i \in 1..Len(obj) : IsArrayIndex(obj[i].key)}
        before(i) == {j \in idx : IndexLess(obj[j].key, obj[i].key)}
    IN  [p \in 1..Cardinality(idx) |->
            obj[CHOOSE i \in idx : Cardinality(before(i)) = p - 1]]
        \o SelectSeq(obj, LAMBDA e : ~IsArrayIndex(e.key))

\* messagesByDate: the count of every row.date
messagesByDate(data) == CountKeys([i \in 1..Len(data) |-> data[i].date])

\* .reduce((max, [date, count]) => count > max[1] ? [date, count] : max, ...)
RECURSIVE MostActiveFrom(_, _, _)
MostActiveFrom(entries, i, max) ==
    IF i > Len(entries) THEN max
    ELSE MostActiveFrom(entries, i + 1,
            IF GtInt(entries[i].value, max.count)
            THEN [date |-> entries[i].key, count |-> entries[i].value.v]
            ELSE max)

\* mostActiveDay, as the {date, count} that goes into the statistics object
mostActiveDay(data) ==
    MostActiveFrom(ObjectEntries(messagesByDate(data)), 1,
                   [date |-> <<>>, count |-> 0])

\* the comparators (a, b) => key(a) - key(b): what sort makes of the
\* difference of two keys, NaN counting as +0
KeyLess(x, y) == LET v == Sub(x, y) IN ~v.nan /\ v.v < 0

KeyEqual(x, y) == LET v == Sub(x, y) IN v.nan \/ v.v = 0

\* such a comparator is consistent for elements with the keys K
ConsistentKeys(K) ==
    \A a, b, c \in K :
        /\ (KeyEqual(a, b) /\ KeyEqual(b, c)) => KeyEqual(a, c)
        /\ (KeyLess(a, b) /\ KeyLess(b, c)) => KeyLess(a, c)
        /\ (KeyLess(b, a) /\ KeyLess(c, b)) => KeyLess(c, a)

\* the elements of keyed, [k, e] with k a number that is not NaN, whose k is
\* one of vals: those of the least value in their original order, then those
\* of the next value, and so on
RECURSIVE GroupsAscending(_, _)
GroupsAscending(keyed, vals) ==
    IF vals = {} THEN <<>>
    ELSE LET least == CHOOSE v \in vals : \A w \in vals : v <= w
         IN  SelectSeq(keyed, LAMBDA x : x.k.v = least)
                \o GroupsAscending(keyed, vals \ {least})

\* arr sorted by (a, b) => key(a) - key(b), key[i] being the key of arr[i],
\* when this comparator is consistent for the elements: ascending, elements
\* that compare equal in their original order.  With a NaN among the keys
\* the comparator is consistent only when all elements compare equal.
SortedByKey(arr, key) ==
    LET keyed == [i \in 1..Len(arr) |-> [k |-> key[i], e |-> arr[i]]]
        sorted == GroupsAscending(keyed, {keyed[i].k.v : i \in 1..Len(arr)})
    IN  IF \E i \in 1..Len(arr) : keyed[i].k.nan THEN arr
        ELSE [p \in 1..Len(arr) |-> sorted[p].e]

\* arr.sort((a, b) => key(a) - key(b)): the stable ascending order, or,
\* with a comparator that is not consistent, any order
SortOutcomesByKey(arr, key) ==
    IF ConsistentKeys({key[i] : i \in 1..Len(arr)})
    THEN {SortedByKey(arr, key)}
    ELSE PermutationsOf(arr)

\* String(n) for an integer n
RECURSIVE DecimalDigits(_)
DecimalDigits(n) ==
    IF n < 10 THEN <<DigitChars[n + 1]>>
    ELSE Append(DecimalDigits(n \div 10), DigitChars[(n % 10) + 1])

DecimalString(n) == IF n < 0 THEN <<"-">> \o DecimalDigits(-n) ELSE DecimalDigits(n)

\* String(x) for a number x
NumberString(x) == IF x.nan THEN <<"N", "a", "N">> ELSE DecimalString(x.v)

\* s.padStart(2, '0')
PadStart2(s) == IF Len(s) < 2 THEN <<"0">> \o s ELSE s

\* `${date.getFullYear()}-${String(date.getMonth() + 1).padStart(2, '0')}`;
\* both getters give NaN for an Invalid Date
monthKey(datetime) ==
    IF datetime.nan
    THEN NumberString(NaN) \o <<"-">> \o PadStart2(NumberString(NaN))
    ELSE DecimalString(GetFullYear(datetime)) \o <<"-">>
            \o PadStart2(DecimalString(GetMonth(datetime) + 1))

\* a variant of messagesByMonth that leaves out the rows whose datetime is an
\* Invalid Date
messagesByMonthValidOnly(data) ==
    LET valid == SelectSeq(data, LAMBDA row : ~row.datetime.nan)
    IN  CountKeys([i \in 1..Len(valid) |-> monthKey(valid[i].datetime)])

\* messagesByMonth: the count of every month key (row.datetime is a Date
\* object, which is truthy also when it is invalid, so no row is left out)
messagesByMonth(data) ==
    CountKeys([i \in 1..Len(data) |-> monthKey(data[i].datetime)])

\* the place of a character of a month key in the collation order that
\* localeCompare uses: punctuation before digits before letters
CollationRank(c) ==
    IF c = "-" THEN 0
    ELSE IF IsDigit(c) THEN 1 + DigitVal(c)
    ELSE IF c = "a" THEN 11
    ELSE 12

\* a.localeCompare(b) < 0 for month keys
LocaleLess(a, b) ==
    \E i \in 1..(Len(b)) :
        /\ \A j \in 1..(i - 1) : j <= Len(a) /\ a[j] = b[j]
        /\ \/ i = Len(a) + 1
           \/ i <= Len(a) /\ CollationRank(a[i]) < CollationRank(b[i])

\* arr sorted by (a, b) => a[0].localeCompare(b[0]), a comparator that is
\* consistent: ascending, elements that compare equal in their original
\* order
SortedByLocale(arr) ==
    LET n == Len(arr)
        before(i) == {j \in 1..n : \/ LocaleLess(arr[j].key, arr[i].key)
                                   \/ /\ ~LocaleLess(arr[i].key, arr[j].key)
                                      /\ j < i}
    IN  [p \in 1..n |-> arr[CHOOSE i \in 1..n : Cardinality(before(i)) = p - 1]]

\* timelineData: the entries of messagesByMonth sorted by month key
timelineData(data) ==
    LET sorted == SortedByLocale(ObjectEntries(messagesByMonth(data)))
    IN  [k \in 1..Len(sorted) |->
            [month |-> sorted[k].key, count |-> sorted[k].value]]

\* the sort key of a date label in the daily timeline: a label of three
\* parts between slashes is new Date(year, month, day), any other new Date(0)
sortDate(date) ==
    LET dateParts == Split(date, "/")
    IN  IF Len(dateParts) = 3
        THEN DateFromParts(ParseInt(dateParts[3]),
                 AddInt(ParseInt(dateParts[2]), -1), ParseInt(dateParts[1]),
                 Num(0), Num(0))
        ELSE Num(0)

\* arr.slice(-n)
SliceLast(arr, n) ==
    IF Len(arr) <= n THEN arr ELSE SubSeq(arr, Len(arr) - n + 1, Len(arr))

\* arr.slice(0, n)
SliceFirst(arr, n) == IF Len(arr) <= n THEN arr ELSE SubSeq(arr, 1, n)

\* dailyTimelineData: the entries of messagesByDate with their sort keys,
\* sorted by (a, b) => a.sortDate - b.sortDate, the last 30 kept; one
\* outcome for every order the sort can produce
dailyTimelineOutcomes(data) ==
    LET entries == ObjectEntries(messagesByDate(data))
        mapped == [k \in 1..Len(entries) |->
                      [date |-> entries[k].key, count |-> entries[k].value,
                       sortDate |-> sortDate(entries[k].key)]]
    IN  {SliceLast(sorted, 30) :
            sorted \in SortOutcomesByKey(mapped,
                          [k \in 1..Len(mapped) |-> mapped[k].sortDate])}

UpperChars ==
    <<"A", "B", "C", "D", "E", "F", "G", "H", "I", "J", "K", "L", "M", "N",
      "O", "P", "Q", "R", "S", "T", "U", "V", "W", "X", "Y", "Z">>

LowerChars ==
    <<"a", "b", "c", "d", "e", "f", "g", "h", "i", "j", "k", "l", "m", "n",
      "o", "p", "q", "r", "s", "t", "u", "v", "w", "x", "y", "z">>

UpperSet == {UpperChars[k] : k \in 1..26}

LowerOf == [c \in UpperSet |-> LowerChars[CHOOSE k \in 1..26 : UpperChars[k] = c]]

\* the characters /[\p{L}\p{N}\s]/u matches, of those of the model (ASCII)
WordChars == UpperSet \cup {LowerChars[k] : k \in 1..26} \cup DigitSet \cup SpaceSet

\* String.prototype.toLowerCase, for the characters of the model (ASCII)
ToLowerCase(s) ==
    [i \in 1..Len(s) |-> IF s[i] \in UpperSet THEN LowerOf[s[i]] ELSE s[i]]

\* .replace(/[^\p{L}\p{N}\s]/gu, ''): every character that is no letter, no
\* digit and no white space is dropped
StripPunctuation(s) == SelectSeq(s, LAMBDA c : c \in WordChars)

\* .split(/\s+/): the pieces between the runs of white space, which are the
\* maximal runs of other characters and, where s begins or ends with white
\* space (or is empty), an empty piece there
SplitSpaces(s) ==
    LET n == Len(s)
        starts == {i \in 1..n : ~IsSpace(s[i]) /\ (i = 1 \/ IsSpace(s[i - 1]))}
        ends == {i \in 1..n : ~IsSpace(s[i]) /\ (i = n \/ IsSpace(s[i + 1]))}
        nth(S, p) == CHOOSE i \in S : Cardinality({j \in S : j < i}) = p - 1
        empty == <<<<>>>>
    IN  (IF n = 0 \/ IsSpace(s[1]) THEN empty ELSE <<>>)
        \o [p \in 1..Cardinality(starts) |-> SubSeq(s, nth(starts, p), nth(ends, p))]
        \o (IF n > 0 /\ IsSpace(s[n]) THEN empty ELSE <<>>)

\* the tokens of a message that are longer than minLength characters
Tokens(message, minLength) ==
    SelectSeq(SplitSpaces(StripPunctuation(ToLowerCase(message))),
              LAMBDA word : Len(word) > minLength)

RECURSIVE Flatten(_, _)
Flatten(seqs, i) ==
    IF i > Len(seqs) THEN <<>> ELSE seqs[i] \o Flatten(seqs, i + 1)

\* wordCounts: the count of every word of more than 2 characters (an empty
\* message has no word)
wordCounts(data) ==
    CountKeys(Flatten([i \in 1..Len(data) |-> Tokens(data[i].message, 2)], 1))

\* b[1] - a[1] as a difference of keys: the keys of the entries
Descending(entries) ==
    [k \in 1..Len(entries) |-> Sub(Num(0), entries[k].value)]

\* topWords: the entries of wordCounts sorted by (a, b) => b[1] - a[1], the
\* first 30 kept; one outcome for every order the sort can produce
topWordsOutcomes(data) ==
    LET entries == ObjectEntries(wordCounts(data))
    IN  {LET top == SliceFirst(sorted, 30)
         IN  [k \in 1..Len(top) |->
                 [word |-> top[k].key, count |-> top[k].value]] :
            sorted \in SortOutcomesByKey(entries, Descending(entries))}

\* the phrases of one message: its windows of 2 words, then its windows of
\* 3 words, the words joined by one space
Phrases(message) ==
    LET words == Tokens(message, 1)
        n == Len(words)
    IN  [i \in 1..(IF n > 1 THEN n - 1 ELSE 0) |->
            words[i] \o <<" ">> \o words[i + 1]]
        \o [i \in 1..(IF n > 2 THEN n - 2 ELSE 0) |->
            words[i] \o <<" ">> \o words[i + 1] \o <<" ">> \o words[i + 2]]

\* a variant of phraseCounts that takes the messages for one text, the
\* words of a message followed by those of the next
phraseCountsJoined(data) ==
    CountKeys(Phrases(Flatten([i \in 1..Len(data) |->
                                  data[i].message \o <<" ">>], 1)))

\* phraseCounts: the count of every phrase
phraseCounts(data) ==
    CountKeys(Flatten([i \in 1..Len(data) |-> Phrases(data[i].message)], 1))

\* a variant of topPhrases that keeps the phrases counted twice as well
topPhrasesFromTwo(data) ==
    LET frequent == SelectSeq(ObjectEntries(phraseCounts(data)),
                              LAMBDA e : ~e.value.nan /\ e.value.v >= 2)
        top == SliceFirst(SortedByKey(frequent, Descending(frequent)), 30)
    IN  [k \in 1..Len(top) |-> [phrase |-> top[k].key, count |-> top[k].value]]

\* topPhrases: the entries of phraseCounts with count >= 3, sorted by
\* (a, b) => b[1] - a[1], the first 30 kept (a phrase holds a space, so it
\* is no inherited name and its count is a number: the comparator is
\* consistent)
topPhrases(data) ==
    LET frequent == SelectSeq(ObjectEntries(phraseCounts(data)),
                              LAMBDA e : ~e.value.nan /\ e.value.v >= 3)
        top == SliceFirst(SortedByKey(frequent, Descending(frequent)), 30)
    IN  [k \in 1..Len(top) |-> [phrase |-> top[k].key, count |-> top[k].value]]

\* the object calculateStats passes to setStats, given the orders that the
\* two sorts with a comparator of differences have produced
StatsObject(data, daily, words) ==
    [timelineData |-> timelineData(data),
     dailyTimelineData |-> daily,
     weekdayData |-> weekdayData(data),
     hourData |-> hourData(data),
     senderData |-> senderData(data),
     topWords |-> words,
     topPhrases |-> topPhrases(data),
     mostActiveDay |-> mostActiveDay(data)]

\* the objects calculateStats can pass to setStats
StatsOutcomes(data) ==
    {StatsObject(data, daily, words) :
        daily \in dailyTimelineOutcomes(data), words \in topWordsOutcomes(data)}

----------------------------------------------------------------------------
(* The component's state.                                                  *)

VARIABLES
    activeTab,      \* useState('upload'): "upload", "chat" or "statistics"
    chatData,       \* useState([]): the stored records
    stats,          \* useState(null): <<>> for null, <<object>> otherwise
    searchTerm,     \* useState(''): the text of the search box
    loading,        \* useState(false)
    fileUploaded,   \* useState(false)
    error,          \* useState(''): the message shown, see Message
    readers,        \* the FileReaders that are reading: [id, file]
    clock,          \* the time new Date() returns
    started,        \* uploads started so far (the next reader's id - 1)
    pool,           \* the files the user has at hand (fixed by the scenario)
    limit,          \* uploads the user starts at most (fixed by the scenario)
    terms,          \* the texts the user types to search (fixed by the scenario)
    lastLoad,       \* history: the last run of the complete callback
    chatOf,         \* history: id of the upload that last wrote chatData
    statsOf,        \* history: id of the upload that last wrote stats
    overlap         \* history: two readers have been reading at once

appVars ==
    <<activeTab, chatData, stats, searchTerm, loading, fileUploaded, error>>

histVars == <<lastLoad, chatOf, statsOf, overlap>>

vars ==
    <<activeTab, chatData, stats, searchTerm, loading, fileUploaded, error,
      readers, clock, started, pool, limit, terms, lastLoad, chatOf, statsOf,
      overlap>>

\* an error message: its fixed text and, for the schema error, the columns
\* joined behind it
Message(text, cols) == [text |-> text, cols |-> cols]

NoError == Message("", <<>>)

requiredColumns ==
    <<"datetime", "date", "time", "hour", "weekday", "sender", "message">>

\* a variant of missingColumns that never looks at the first column
missingColumnsSkipFirst(headers) ==
    SelectSeq(Tail(requiredColumns), LAMBDA col : col \notin headers)

\* requiredColumns.filter(col => !headers.includes(col))
missingColumns(headers) == SelectSeq(requiredColumns, LAMBDA col : col \notin headers)

\* A line of the file below the header is the row it parses to, or
\* BlankLine for an empty line.
BlankLine == [blank |-> TRUE]

\* a variant of PapaParse with skipEmptyLines: 'greedy', which skips also
\* the rows whose fields are all empty
PapaParseGreedy(file) ==
    [fields |-> file.fields,
     data |-> SelectSeq(file.data,
                 LAMBDA line : /\ line # BlankLine
                               /\ ~(/\ line.date = <<>> /\ line.time = <<>>
                                    /\ line.hour = <<>> /\ line.weekday = ""
                                    /\ line.sender = ""
                                    /\ line.message = <<>>)),
     errors |-> file.errors]

\* Papa.parse(csvContent, {header: true, skipEmptyLines: true, complete,
\* error}) on a string: the parse is synchronous and always ends in the
\* complete callback; results.data holds the rows of the lines that are not
\* empty; what is wrong with the CSV syntax is listed in results.errors
\* beside the rows that could be recovered.  (The error callback belongs
\* to Papa's file and network readers and the parse of a string throws
\* nothing, so neither the error callback nor the catch block of the
\* handler runs.)
PapaParse(file) ==
    [fields |-> file.fields,
     data |-> SelectSeq(file.data, LAMBDA line : line # BlankLine),
     errors |-> file.errors]

\* parseDate reads the clock for this row (it calls new Date())
ReadsClock(row, now) ==
    parseDate(row.date, row.time, now) # parseDate(row.date, row.time, AddInt(now, 1))

\* results.data.map(row => ({...row, datetime: new Date(parseDate(row.date,
\* row.time))})): new Date() inside parseDate reads the clock, which may have
\* moved on by a minute since the read before; the rows behind position
\* `split` see the later time.  Field n is the row's position in
\* results.data (the identity of the row object).
MapRows(data, now, split) ==
    [i \in 1..Len(data) |->
        [n |-> i,
         date |-> data[i].date,
         time |-> data[i].time,
         hour |-> data[i].hour,
         weekday |-> data[i].weekday,
         sender |-> data[i].sender,
         message |-> data[i].message,
         datetime |-> NewDate(parseDate(data[i].date, data[i].time,
                         IF i <= split THEN now ELSE AddInt(now, 1)))]]

\* the session starts at 2 January 2024, 00:00
Now0 == DateFromParts(Num(2024), Num(0), Num(2), Num(0), Num(0))

\* lastLoad: the reader's id, whether the schema check passed, the clock
\* when the callback began and ended, and the mapped rows before the sort
NoLoad == [id |-> 0, ok |-> FALSE, at |-> Now0, end |-> Now0, mapped |-> <<>>]

InitApp ==
    /\ activeTab = "upload"
    /\ chatData = <<>>
    /\ stats = <<>>
    /\ searchTerm = <<>>
    /\ loading = FALSE
    /\ fileUploaded = FALSE
    /\ error = NoError
    /\ readers = {}
    /\ clock = Now0
    /\ started = 0
    /\ lastLoad = NoLoad
    /\ chatOf = 0
    /\ statsOf = 0
    /\ overlap = FALSE

----------------------------------------------------------------------------
(* The handlers.  JavaScript runs each to its end before the next event    *)
(* is taken, so each is one step.                                          *)

IsCsv(file) == file.type = "text/csv" \/ file.csvName

\* handleFileUpload(event) for a chosen file; the file input and the drop
\* zone are drawn on the upload tab only
StartUpload(file) ==
    /\ activeTab = "upload"
    /\ started < limit
    /\ started' = started + 1
    /\ IF ~IsCsv(file)
       THEN /\ error' = Message("Please upload a CSV file.", <<>>)
            /\ loading' = FALSE
            /\ readers' = readers
            /\ overlap' = overlap
       ELSE /\ error' = NoError
            /\ loading' = TRUE
            /\ readers' = readers \cup {[id |-> started + 1, file |-> file]}
            /\ overlap' = (overlap \/ readers # {})
    /\ UNCHANGED <<activeTab, chatData, stats, searchTerm, fileUploaded,
                   clock, pool, limit, terms, lastLoad, chatOf, statsOf>>

\* handleDrop(e) for one dropped file: a CSV file goes to handleFileUpload,
\* any other only sets the error
handleDrop(file) ==
    IF IsCsv(file) THEN StartUpload(file)
    ELSE /\ activeTab = "upload"
         /\ started < limit
         /\ started' = started + 1
         /\ error' = Message("Please upload a CSV file.", <<>>)
         /\ UNCHANGED <<activeTab, chatData, stats, searchTerm, loading,
                        fileUploaded, readers, clock, pool, limit, terms,
                        lastLoad, chatOf, statsOf, overlap>>

\* a variant of dataAfterStats in which calculateStats reverses the array
dataReversed(data) == [i \in 1..Len(data) |-> data[Len(data) + 1 - i]]

\* the array data as calculateStats leaves it.  setChatData has stored the
\* same array object, so this is what chatData holds after the callback.
\* calculateStats only reads it: data.map, data.filter and data.forEach
\* with callbacks that assign to no row, and every sort is on an array of
\* entries made by Object.entries
dataAfterStats(data) == data

\* a variant of calculateStats that sets stats to null on an empty array
calculateStatsOrNull(data, id) ==
    /\ \E object \in (IF Len(data) = 0 THEN {<<>>}
                       ELSE {<<o>> : o \in StatsOutcomes(data)}) :
           stats' = object
    /\ statsOf' = id

\* calculateStats(data): returns at once on an empty array, else setStats
calculateStats(data, id) ==
    IF Len(data) = 0
    THEN UNCHANGED <<stats, statsOf>>
    ELSE /\ \E object \in StatsOutcomes(data) : stats' = <<object>>
         /\ statsOf' = id

\* the complete callback of Papa.parse, run for reader r
complete(r, results) ==
    IF Len(missingColumns(results.fields)) > 0
    THEN /\ error' = Message("CSV is missing required columns: ",
                             missingColumns(results.fields))
         /\ loading' = FALSE
         /\ lastLoad' = [id |-> r.id, ok |-> FALSE, at |-> clock,
                          end |-> clock, mapped |-> <<>>]
         /\ UNCHANGED <<activeTab, chatData, stats, fileUploaded, clock,
                        chatOf, statsOf>>
    ELSE \E split \in 0..Len(results.data) :
           \E mapped \in {MapRows(results.data, clock, split)} :
               /\ split < Len(results.data) =>
                     /\ clock.v < Now0.v + MaxTicks
                     /\ ReadsClock(results.data[split + 1], clock)
               /\ clock' = IF split < Len(results.data) THEN AddInt(clock, 1)
                           ELSE clock
               /\ \E parsedData \in SortOutcomes(mapped) :
                     /\ chatData' = dataAfterStats(parsedData)
                     /\ chatOf' = r.id
                     /\ calculateStats(parsedData, r.id)
               /\ lastLoad' = [id |-> r.id, ok |-> TRUE, at |-> clock,
                                end |-> clock', mapped |-> mapped]
               /\ fileUploaded' = TRUE
               /\ loading' = FALSE
               /\ activeTab' = "chat"
               /\ error' = error

\* reader.onload: the file's text is parsed and the complete callback runs
ReaderOnLoad(r) ==
    /\ r \in readers
    /\ r.file.readable
    /\ readers' = readers \ {r}
    /\ complete(r, PapaParse(r.file))
    /\ UNCHANGED <<searchTerm, started, pool, limit, terms, overlap>>

\* reader.onerror
ReaderOnError(r) ==
    /\ r \in readers
    /\ ~r.file.readable
    /\ readers' = readers \ {r}
    /\ error' = Message("Failed to read the file.", <<>>)
    /\ loading' = FALSE
    /\ UNCHANGED <<activeTab, chatData, stats, searchTerm, fileUploaded,
                   clock, started, pool, limit, terms, lastLoad, chatOf,
                   statsOf, overlap>>

\* a variant of TabClick in which every tab acts at any time
TabClickAlways(tab) ==
    /\ activeTab # tab
    /\ activeTab' = tab
    /\ UNCHANGED <<chatData, stats, searchTerm, loading, fileUploaded, error,
                   readers, clock, started, pool, limit, terms, lastLoad,
                   chatOf, statsOf, overlap>>

\* a click on a tab: the chat and statistics tabs act only once a file is
\* uploaded
TabClick(tab) ==
    /\ tab \in {"chat", "statistics"} => fileUploaded
    /\ activeTab # tab
    /\ activeTab' = tab
    /\ UNCHANGED <<chatData, stats, searchTerm, loading, fileUploaded, error,
                   readers, clock, started, pool, limit, terms, lastLoad,
                   chatOf, statsOf, overlap>>

\* onChange of the search box, which is shown on the chat tab once a file is
\* uploaded: setSearchTerm(e.target.value)
SearchInput(term) ==
    /\ activeTab = "chat"
    /\ fileUploaded
    /\ searchTerm' = term
    /\ UNCHANGED <<activeTab, chatData, stats, loading, fileUploaded, error,
                   readers, clock, started, pool, limit, terms, lastLoad,
                   chatOf, statsOf, overlap>>

\* str.includes(sub) that looks at the start of str only
StartsWith(str, sub) == Len(sub) <= Len(str) /\ SubSeq(str, 1, Len(sub)) = sub

\* str.includes(sub) for a string sub
IncludesString(str, sub) ==
    \E i \in 0..(Len(str) - Len(sub)) : SubSeq(str, i + 1, i + Len(sub)) = sub

\* chatData filtered by the search: an empty search and an empty chat leave
\* chatData as it is, and a message that is empty is falsy
filteredChatData ==
    IF searchTerm # <<>> /\ Len(chatData) > 0
    THEN SelectSeq(chatData,
             LAMBDA msg : /\ msg.message # <<>>
                          /\ IncludesString(ToLowerCase(msg.message),
                                            ToLowerCase(searchTerm)))
    ELSE chatData

\* _.groupBy(collection, 'date'): an object with a property for every date
\* of the collection, created when the date is first met and holding the
\* elements of that date in their order (lodash tests for own properties and
\* defines own properties, so no name is special)
GroupByDate(collection) ==
    LET first == SelectSeq([i \in 1..Len(collection) |-> i],
                     LAMBDA i : \A j \in 1..(i - 1) :
                                    collection[j].date # collection[i].date)
    IN  [k \in 1..Len(first) |->
            [key |-> collection[first[k]].date,
             value |-> SelectSeq(collection,
                          LAMBDA msg : msg.date = collection[first[k]].date)]]

groupedByDate == GroupByDate(filteredChatData)

\* Object.entries(groupedByDate).map(([date, messages]) => ...): the groups
\* of the chat view in the order they are drawn
DateGroups == ObjectEntries(groupedByDate)

\* time passes
Tick ==
    /\ clock.v < Now0.v + MaxTicks
    /\ clock' = AddInt(clock, 1)
    /\ UNCHANGED <<appVars, readers, started, pool, limit, terms, histVars>>

----------------------------------------------------------------------------
(* The files of the scenarios.                                             *)

SeqsUpTo(S, n) == UNION {[1..k -> S] : k \in 0..n}

\* d, m and y joined by the separator sep
Joined(d, m, y, sep) == d \o <<sep>> \o m \o <<sep>> \o y

Date_01_01_2024 == <<"0", "1", "/", "0", "1", "/", "2", "0", "2", "4">>

Date_02_01_2024 == <<"0", "2", "/", "0", "1", "/", "2", "0", "2", "4">>

Date_08_01_2024 == <<"0", "8", "/", "0", "1", "/", "2", "0", "2", "4">>

Time_10_00 == <<"1", "0", ":", "0", "0">>

Row(date, time, weekday, sender) ==
    [date |-> date, time |-> time, hour |-> <<"1", "0">>, weekday |-> weekday,
     sender |-> sender, message |-> <<"h", "i", " ", "a", "l", "l">>]

AllColumns == {requiredColumns[i] : i \in 1..Len(requiredColumns)}

\* a readable CSV file with the seven columns and the given lines
CsvFile(data) ==
    [type |-> "text/csv", csvName |-> TRUE, readable |-> TRUE,
     fields |-> AllColumns, data |-> data, errors |-> <<>>]

\* the rows of the ingestion scenarios: a valid date, a date without
\* separator (now), an empty date (null), a time that makes an Invalid Date
IngestRows ==
    {Row(Date_01_01_2024, Time_10_00, "Monday", "A"),
     Row(<<"h", "e", "l", "l", "o">>, Time_10_00, "Monday", "B"),
     Row(<<>>, Time_10_00, "Monday", "B"),
     Row(Date_01_01_2024, <<"a", "b", ":", "c", "d">>, "Monday", "A")}

\* date strings of every shape parseDate distinguishes
DayStrings == {<<"1">>, <<"0", "5">>, <<"1", "2">>, <<"1", "3">>, <<"3", "1">>, <<"x">>}

MonthStrings == {<<"0", "1">>, <<"1", "2">>}

YearStrings ==
    {<<"5">>, <<"2", "4">>, <<"9", "9">>, <<"1", "0", "0">>,
     <<"2", "0", "2", "4">>, <<"y", "y">>}

DateStrings ==
    {Joined(d, m, y, sep) : d \in DayStrings, m \in MonthStrings,
                            y \in YearStrings, sep \in {"/", "-"}}
    \cup {<<>>, <<"h", "e", "l", "l", "o">>, <<"1", "/", "2">>,
          <<"1", "/", "2", "/", "3", "/", "4">>, <<"1", "-", "2", "/", "3">>,
          <<"2", "0", "2", "4", "0", "1", "0", "5">>}

TimeStrings ==
    {<<>>, Time_10_00, <<"9">>, <<"1", "0", ":", "3", "0", ":", "1", "5">>,
     <<"a", "b", ":", "c", "d">>, <<"1", "0", ":", "x", "x">>}

\* files of four rows that begin with the same row twice
TieFiles ==
    {CsvFile(<<first, first, third, fourth>>) :
        first \in IngestRows, third \in IngestRows, fourth \in IngestRows}

IngestFiles ==
    {CsvFile(data) : data \in SeqsUpTo(IngestRows, MaxRows)}
    \cup TieFiles
    \cup {CsvFile(<<Row(d, t, "Monday", "A")>>) : d \in DateStrings, t \in TimeStrings}

\* the rows of the statistics scenarios: three Mondays, a Tuesday, and a
\* weekday name that is none of the seven
StatRows ==
    {Row(Date_01_01_2024, Time_10_00, "Monday", "A"),
     Row(Date_08_01_2024, Time_10_00, "Monday", "B"),
     Row(<<"1", "5", "/", "0", "1", "/", "2", "4">>, Time_10_00, "Monday", "A"),
     Row(Date_02_01_2024, Time_10_00, "Tuesday", "B"),
     Row(Date_01_01_2024, Time_10_00, "monday", "A")}

StatFiles == {CsvFile(data) : data \in SeqsUpTo(StatRows, MaxStatRows)}

\* a row with every field given
FullRow(date, time, hour, weekday, sender, message) ==
    [date |-> date, time |-> time, hour |-> hour, weekday |-> weekday,
     sender |-> sender, message |-> message]

\* the rows of the date scenarios: two days of January 2024, a day of
\* December with a two-digit year, two dates written as plain numbers, and a
\* time that makes an Invalid Date
DateRows ==
    {Row(Date_02_01_2024, Time_10_00, "Tuesday", "A"),
     Row(Date_01_01_2024, Time_10_00, "Monday", "B"),
     Row(<<"1", "5", "/", "1", "2", "/", "2", "3">>, Time_10_00, "Friday", "A"),
     Row(<<"2">>, Time_10_00, "Tuesday", "B"),
     Row(<<"1">>, Time_10_00, "Monday", "A"),
     Row(Date_01_01_2024, <<"a", "b", ":", "c", "d">>, "Monday", "A")}

DateFiles == {CsvFile(data) : data \in SeqsUpTo(DateRows, MaxDateRows)}

\* a row of 1 January 2024, 10:00 with the given message
MessageRow(message) ==
    FullRow(Date_01_01_2024, Time_10_00, <<"1", "0">>, "Monday", "A", message)

RECURSIVE JoinWords(_, _)
JoinWords(words, i) ==
    IF i > Len(words) THEN <<>>
    ELSE IF i = Len(words) THEN words[i]
    ELSE words[i] \o <<" ">> \o JoinWords(words, i + 1)

\* a message of 32 different words of two letters: 31 windows of two words
LongMessage ==
    JoinWords([k \in 1..32 |-> <<LowerChars[((k - 1) \div 8) + 1],
                                  LowerChars[((k - 1) % 8) + 9]>>], 1)

\* the messages of the word scenarios
WordMessages ==
    {<<"a", "b", " ", "c", "d">>, <<"A", "b", ",", " ", "c", "d", "!", " ", "e", "f">>, <<>>, <<"a", "b", "c", " ", "a", "b", "c", " ", "x">>, <<"c", "o", "n", "s", "t", "r", "u", "c", "t", "o", "r", " ", "a", "b", "c", " ", "H", "e", "l", "l", "o">>,
     <<"h", "e", "l", "l", "o", " ", " ", "H", "E", "L", "L", "O", " ", "h", "e", "l", "l", "o">>, LongMessage}

WordFiles ==
    {CsvFile([i \in 1..Len(messages) |-> MessageRow(messages[i])]) :
        messages \in SeqsUpTo(WordMessages, MaxWordRows)}

\* the rows of the sender scenarios: senders that differ in case, in a
\* trailing blank, or are called __proto__, with messages of two words, of
\* no word, and with blanks around the words; and hours that are out of
\* range, not numeric, numeric at the start only, or negative
SenderRows ==
    {FullRow(Date_01_01_2024, Time_10_00, <<"1", "0">>, "Monday", "A", <<"h", "i", " ", "a", "l", "l">>),
     FullRow(Date_01_01_2024, Time_10_00, <<"1", "0">>, "Monday", "a", <<" ", "h", "i", " ", " ", "a", "l", "l", " ">>),
     FullRow(Date_01_01_2024, Time_10_00, <<"1", "0">>, "Monday", "A ", <<>>),
     FullRow(Date_01_01_2024, Time_10_00, <<"1", "0">>, "Monday", "__proto__", <<"h", "i", " ", "a", "l", "l">>),
     FullRow(Date_01_01_2024, Time_10_00, <<"2", "4">>, "Monday", "A", <<"h", "i", " ", "a", "l", "l">>),
     FullRow(Date_01_01_2024, Time_10_00, <<"x">>, "Monday", "A", <<"h", "i", " ", "a", "l", "l">>),
     FullRow(Date_01_01_2024, Time_10_00, <<"7", "p", "m">>, "Monday", "A", <<"h", "i", " ", "a", "l", "l">>),
     FullRow(Date_01_01_2024, Time_10_00, <<"-", "1">>, "Monday", "A", <<"h", "i", " ", "a", "l", "l">>),
     FullRow(Date_01_01_2024, Time_10_00, <<"0">>, "Monday", "A", <<"h", "i", " ", "a", "l", "l">>)}

SenderFiles == {CsvFile(data) : data \in SeqsUpTo(SenderRows, MaxSenderRows)}

\* the rows of the daily timeline scenarios: two days of January 2024, a
\* date of three parts that are no numbers, and a date with dashes
DailyRows ==
    {Row(Date_02_01_2024, Time_10_00, "Tuesday", "A"),
     Row(Date_01_01_2024, Time_10_00, "Monday", "B"),
     Row(<<"a", "/", "b", "/", "c">>, Time_10_00, "Monday", "A"),
     Row(<<"0", "1", "-", "0", "1", "-", "2", "0", "2", "4">>, Time_10_00, "Monday", "B")}

DailyFiles == {CsvFile(data) : data \in SeqsUpTo(DailyRows, MaxDateRows)}

\* the rows of the search scenarios: messages with "hello" in three
\* spellings, one without it and an empty one, on two days
SearchRows ==
    {FullRow(Date_01_01_2024, Time_10_00, <<"1", "0">>, "Monday", "A", <<"H", "e", "l", "l", "o", " ", "a", "l", "l">>),
     FullRow(Date_02_01_2024, Time_10_00, <<"1", "0">>, "Tuesday", "B", <<"s", "a", "y", " ", "H", "E", "L", "L", "O">>),
     FullRow(Date_01_01_2024, Time_10_00, <<"1", "0">>, "Monday", "B", <<"b", "y", "e">>),
     FullRow(Date_02_01_2024, Time_10_00, <<"1", "0">>, "Tuesday", "A", <<>>)}

SearchFiles == {CsvFile(data) : data \in SeqsUpTo(SearchRows, MaxSearchRows)}

\* what the user types to search in the search scenarios
SearchTerms == {<<>>, <<"h", "e", "l", "l", "o">>, <<"H", "e", "L", "L", "o">>, <<"l">>, <<"o", " ", "a">>, <<"x", "y", "z">>}

\* the lines of the blank line scenarios: two rows in reverse order of
\* time, a row whose fields are all empty, and an empty line
FileLines ==
    {Row(Date_02_01_2024, Time_10_00, "Tuesday", "A"),
     Row(Date_01_01_2024, Time_10_00, "Monday", "B"),
     FullRow(<<>>, <<>>, <<>>, "", "", <<>>),
     BlankLine}

LineFiles == {CsvFile(data) : data \in SeqsUpTo(FileLines, MaxLines)}

\* the rows of the year scenarios: dates of three numbers between slashes,
\* with years of two and of four digits and days below and above 12
YearRows ==
    {Row(<<"0", "5", "/", "0", "1", "/", "2", "4">>, Time_10_00, "Friday", "A"),
     Row(<<"0", "1", "/", "0", "6", "/", "2", "0", "0", "0">>, Time_10_00, "Thursday", "B"),
     Row(<<"1", "3", "/", "0", "1", "/", "2", "4">>, Time_10_00, "Saturday", "A"),
     Row(Date_02_01_2024, Time_10_00, "Tuesday", "B")}

YearFiles == {CsvFile(data) : data \in SeqsUpTo(YearRows, MaxDateRows)}

\* the files of the lifecycle scenarios
FileA ==
    CsvFile(<<Row(Date_02_01_2024, Time_10_00, "Tuesday", "A"),
              Row(Date_01_01_2024, Time_10_00, "Monday", "B")>>)

FileB == CsvFile(<<Row(Date_08_01_2024, <<>>, "Monday", "B")>>)

\* a header line and no data row
FileEmpty == CsvFile(<<>>)

\* no hour and no message column
FileNoHour ==
    [CsvFile(<<Row(Date_01_01_2024, Time_10_00, "Monday", "A")>>)
        EXCEPT !.fields = AllColumns \ {"hour", "message"}]

\* a quoted field that is never closed: Papa lists the error and recovers
\* the row
FileBadQuotes ==
    [CsvFile(<<Row(Date_01_01_2024, Time_10_00, "Monday", "A")>>)
        EXCEPT !.errors = <<"MissingQuotes">>]

\* not a CSV file by type or by name
FileText == [CsvFile(<<>>) EXCEPT !.type = "text/plain", !.csvName = FALSE]

\* a CSV file the FileReader cannot read
FileUnreadable == [FileB EXCEPT !.readable = FALSE]

Catalogue ==
    {FileA, FileB, FileEmpty, FileNoHour, FileBadQuotes, FileText,
     FileUnreadable}

\* files whose header is any set of required columns, with or without a
\* column the code does not ask for
SchemaFiles ==
    {[FileB EXCEPT !.fields = cols \cup extra] :
        cols \in SUBSET AllColumns, extra \in {{}, {"extra"}}}

----------------------------------------------------------------------------
(* The specifications.                                                     *)

\* what the user types to search in the lifecycle
LifecycleTerms == {<<>>, <<"H", "I">>}

\* the lifecycle: any files of the catalogue, any interleaving
Init ==
    InitApp /\ pool = Catalogue /\ limit = MaxUploads /\ terms = LifecycleTerms

Next ==
    \/ \E file \in pool : StartUpload(file)
    \/ \E file \in pool : handleDrop(file)
    \/ \E r \in readers : ReaderOnLoad(r)
    \/ \E r \in readers : ReaderOnError(r)
    \/ \E tab \in {"upload", "chat", "statistics"} : TabClick(tab)
    \/ \E term \in terms : SearchInput(term)
    \/ Tick

Spec == Init /\ [][Next]_vars

\* one upload of one file, read and ingested
NextLoad ==
    \/ \E file \in pool : StartUpload(file)
    \/ \E r \in readers : ReaderOnLoad(r)

InitIngest == InitApp /\ terms = {} /\ limit = 1 /\ \E file \in IngestFiles : pool = {file}

SpecIngest == InitIngest /\ [][NextLoad]_vars

InitStats == InitApp /\ terms = {} /\ limit = 1 /\ \E file \in StatFiles : pool = {file}

SpecStats == InitStats /\ [][NextLoad]_vars

InitDates == InitApp /\ terms = {} /\ limit = 1 /\ \E file \in DateFiles : pool = {file}

SpecDates == InitDates /\ [][NextLoad]_vars

InitWords == InitApp /\ terms = {} /\ limit = 1 /\ \E file \in WordFiles : pool = {file}

SpecWords == InitWords /\ [][NextLoad]_vars

InitSenders == InitApp /\ terms = {} /\ limit = 1 /\ \E file \in SenderFiles : pool = {file}

SpecSenders == InitSenders /\ [][NextLoad]_vars

InitDaily == InitApp /\ terms = {} /\ limit = 1 /\ \E file \in DailyFiles : pool = {file}

SpecDaily == InitDaily /\ [][NextLoad]_vars

\* one upload of one file and any searches in it
NextSearch ==
    \/ \E file \in pool : StartUpload(file)
    \/ \E r \in readers : ReaderOnLoad(r)
    \/ \E term \in terms : SearchInput(term)

InitSearch ==
    InitApp /\ terms = SearchTerms /\ limit = 1
            /\ \E file \in SearchFiles : pool = {file}

SpecSearch == InitSearch /\ [][NextSearch]_vars

InitLines == InitApp /\ terms = {} /\ limit = 1 /\ \E file \in LineFiles : pool = {file}

SpecLines == InitLines /\ [][NextLoad]_vars

InitYears == InitApp /\ terms = {} /\ limit = 1 /\ \E file \in YearFiles : pool = {file}

SpecYears == InitYears /\ [][NextLoad]_vars

\* a valid file and a file of any header, uploaded in any order
InitSchema == InitApp /\ terms = {} /\ limit = 2 /\ \E file \in SchemaFiles : pool = {FileA, file}

SpecSchema == InitSchema /\ [][NextLoad]_vars

----------------------------------------------------------------------------
(* The claims.                                                             *)

\* the step is the onload of reader r
LoadStep(r) == r \in readers /\ r \notin readers' /\ r.file.readable

\* x <= y on numbers: false when either is NaN
Le(x, y) == ~x.nan /\ ~y.nan /\ x.v <= y.v

\* the timestamps of arr are in non-decreasing order
Ascending(arr) ==
    \A i, j \in 1..Len(arr) : i < j => Le(arr[i].datetime, arr[j].datetime)

\* C1: after every successful ingestion chatData is sorted ascending by
\* timestamp, for every input, unparseable dates and times included.
\* Fails: a row with an Invalid Date compares <= with no other row.
C1_SortedByTimestamp == Ascending(chatData)

\* C2: once an upload that passes the schema check completes, chatData and
\* stats are those of the uploaded file: chatData holds its rows and stats is
\* the statistics of those rows (none for a file without rows).
\* Fails: after a file without rows the statistics of the file before stay.
C2_UploadReplacesDataset ==
    lastLoad.ok =>
        /\ chatData \in PermutationsOf(lastLoad.mapped)
        /\ IF Len(chatData) = 0 THEN stats = <<>>
           ELSE Len(stats) = 1 /\ stats[1] \in StatsOutcomes(chatData)

\* C3: a file whose header lacks required columns ends with the error that
\* names exactly the missing columns; chatData, stats, fileUploaded and
\* activeTab stay as they were and loading is false.
C3_SchemaRejection ==
    [][\A r \in readers :
          (LoadStep(r) /\ ~(AllColumns \subseteq r.file.fields)) =>
              /\ error'.text = "CSV is missing required columns: "
              /\ {error'.cols[i] : i \in 1..Len(error'.cols)}
                    = AllColumns \ r.file.fields
              /\ Len(error'.cols) = Cardinality(AllColumns \ r.file.fields)
              /\ chatData' = chatData
              /\ stats' = stats
              /\ fileUploaded' = fileUploaded
              /\ activeTab' = activeTab
              /\ loading' = FALSE]_vars

\* C3 witness: a file lacking two columns or more was rejected while an
\* earlier dataset is on display
C3_Witness ==
    /\ error.text = "CSV is missing required columns: "
    /\ Len(error.cols) >= 2
    /\ lastLoad.id = 2
    /\ ~lastLoad.ok
    /\ Len(chatData) = 2
    /\ stats # <<>>
    /\ activeTab = "chat"
    /\ fileUploaded
    /\ ~loading

\* C4: a file with malformed CSV syntax and all seven columns fails with
\* the parse error and leaves chatData and stats as they were.
\* Fails: Papa lists the syntax error in results.errors, which the complete
\* callback never reads; the recovered rows are stored.
C4_MalformedAborts ==
    [][\A r \in readers :
          (LoadStep(r) /\ r.file.errors # <<>>
              /\ AllColumns \subseteq r.file.fields) =>
              /\ error'.text = "Error parsing CSV: "
              /\ chatData' = chatData
              /\ stats' = stats]_vars

\* C5: once two uploads have been in flight together, in every state
\* chatData and stats come from the same upload.
\* Fails: an upload without rows replaces chatData and keeps the other
\* upload's stats (the bug of C2).
C5_SameUpload == overlap => (stats = <<>> \/ statsOf = chatOf)

\* C6: records of equal timestamp are stored in the order of their rows in
\* the file.
\* Fails: with an Invalid Date among rows of different times the comparator
\* is inconsistent and the order of the sort is implementation-defined.
C6_StableTies ==
    lastLoad.ok =>
        \A i, j \in 1..Len(chatData) :
            (/\ i < j
             /\ ~chatData[i].datetime.nan
             /\ chatData[i].datetime = chatData[j].datetime)
                => chatData[i].n < chatData[j].n

\* C7: when the rows of the file are already in non-decreasing order of
\* derived timestamp, chatData has exactly the order of the rows.
C7_SortedInputKeepsOrder ==
    (lastLoad.ok /\ Ascending(lastLoad.mapped)) => chatData = lastLoad.mapped

\* C7 witness: a sorted file of three rows or more, with a tie and with two
\* different timestamps, was ingested
C7_Witness ==
    /\ lastLoad.ok
    /\ Ascending(lastLoad.mapped)
    /\ Len(lastLoad.mapped) >= 3
    /\ \E i, j \in 1..Len(lastLoad.mapped) :
          i < j /\ lastLoad.mapped[i].datetime = lastLoad.mapped[j].datetime
    /\ \E i, j \in 1..Len(lastLoad.mapped) :
          lastLoad.mapped[i].datetime # lastLoad.mapped[j].datetime
    /\ chatData = lastLoad.mapped

\* the date string has neither separator, or not exactly two of the
\* separator that is looked for ('/' first, else '-')
NoKnownFormat(date) ==
    LET count(c) == Cardinality({i \in 1..Len(date) : date[i] = c})
    IN  IF count("/") > 0 THEN count("/") # 2 ELSE count("-") # 2

\* the timestamp was read from the clock while the callback ran
IsNowOf(load, t) == Le(load.at, t) /\ Le(t, load.end)

\* C8 as stated: every record whose date has no known format, the empty
\* date included, gets the instant of ingestion as its timestamp.
\* Fails for the empty date: parseDate returns null and new Date(null) is
\* the epoch.
C8_FallbackAlwaysNow ==
    lastLoad.ok =>
        \A i \in 1..Len(lastLoad.mapped) :
            NoKnownFormat(lastLoad.mapped[i].date)
                => IsNowOf(lastLoad, lastLoad.mapped[i].datetime)

\* C8 as amended: every record whose date is not empty and has no known
\* format gets the instant of ingestion as its timestamp; a record whose
\* date is empty gets the epoch; the ingestion succeeds in both cases.
C8_FallbackNowOrEpoch ==
    lastLoad.ok =>
        \A i \in 1..Len(lastLoad.mapped) :
            LET row == lastLoad.mapped[i]
            IN  /\ (row.date # <<>> /\ NoKnownFormat(row.date))
                      => IsNowOf(lastLoad, row.datetime)
                /\ row.date = <<>> => row.datetime = Num(0)

\* C8 witness: a file with a row of unknown date format and a row of empty
\* date was ingested
C8_Witness ==
    /\ lastLoad.ok
    /\ fileUploaded
    /\ \E i \in 1..Len(chatData) :
          /\ chatData[i].date # <<>>
          /\ NoKnownFormat(chatData[i].date)
          /\ IsNowOf(lastLoad, chatData[i].datetime)
    /\ \E i \in 1..Len(chatData) :
          chatData[i].date = <<>> /\ chatData[i].datetime = Num(0)

\* the date has three components of which the last is a number of one or
\* two digits
TwoDigitYear(date) ==
    LET parts == IF Includes(date, "/") THEN Split(date, "/") ELSE Split(date, "-")
    IN  /\ Len(parts) = 3
        /\ Len(parts[3]) \in {1, 2}
        /\ \A k \in 1..Len(parts[3]) : IsDigit(parts[3][k])

YearComponent(date) ==
    LET parts == IF Includes(date, "/") THEN Split(date, "/") ELSE Split(date, "-")
    IN  ParseInt(parts[3]).v

\* C9: a date of three components with a year below 100 gets the year plus
\* 2000, whatever the first component is.
\* Fails when the first component is above 12: the year is passed on as it
\* is and the Date constructor reads it as 1900 + year.
C9_TwoDigitYearPromoted ==
    lastLoad.ok =>
        \A i \in 1..Len(lastLoad.mapped) :
            LET row == lastLoad.mapped[i]
            IN  (TwoDigitYear(row.date) /\ ~row.datetime.nan)
                    => GetFullYear(row.datetime) = YearComponent(row.date) + 2000

\* the records of chatData with the weekday
CountOn(day) == Cardinality({i \in 1..Len(chatData) : chatData[i].weekday = day})

\* the distinct dates of the records of chatData with the weekday
DatesOn(day) ==
    Cardinality({date \in {chatData[i].date : i \in 1..Len(chatData)} :
        \E i \in 1..Len(chatData) :
            chatData[i].weekday = day /\ chatData[i].date = date})

\* C10 as stated: the weekday average is the exact mean, records of the
\* weekday over distinct dates of the weekday (avg is in tenths), and 0 for
\* a weekday without records.
\* Fails: the average is rounded to one decimal, 4 records on 3 dates
\* giving 1.3.
C10_WeekdayAverageExact ==
    stats # <<>> =>
        \A k \in 1..7 :
            LET avg == stats[1].weekdayData[k].avg
                day == WeekdayNames[k]
            IN  IF DatesOn(day) = 0 THEN avg = 0
                ELSE avg * DatesOn(day) = 10 * CountOn(day)

\* C10 as amended: the weekday average is the mean, records of the weekday
\* over distinct dates of the weekday, rounded to one decimal (a tie
\* upwards), and 0 for a weekday without records.
C10_WeekdayAverageRounded ==
    stats # <<>> =>
        \A k \in 1..7 :
            LET avg == stats[1].weekdayData[k].avg
                day == WeekdayNames[k]
                n == CountOn(day)
                d == DatesOn(day)
            IN  /\ stats[1].weekdayData[k].day = day
                /\ IF d = 0 THEN avg = 0
                   ELSE 20 * n - d < 2 * d * avg /\ 2 * d * avg <= 20 * n + d

\* C10 witness: four Monday records on three dates (1.3), three records on
\* two would give 1.5; no Sunday record
C10_Witness ==
    /\ stats # <<>>
    /\ CountOn("Monday") = 4
    /\ DatesOn("Monday") = 3
    /\ stats[1].weekdayData[2].avg = 13
    /\ CountOn("Sunday") = 0
    /\ stats[1].weekdayData[1].avg = 0

\* the rows of chatData with the date d
CountOfDate(d) == Cardinality({i \in 1..Len(chatData) : chatData[i].date = d})

\* the position of the first row of chatData with the date d
FirstOfDate(d) ==
    CHOOSE i \in 1..Len(chatData) :
        chatData[i].date = d /\ \A j \in 1..(i - 1) : chatData[j].date # d

\* C11: mostActiveDay is a date of the dataset with its count, no date has a
\* greater count, and of the dates with that count it is the one met first
\* in the message sequence, whatever the date strings look like.
\* Fails: Object.entries lists a date that is written as a plain number
\* before the dates met earlier.
C11_MostActiveFirstSeen ==
    stats # <<>> =>
        LET day == stats[1].mostActiveDay
        IN  /\ \E i \in 1..Len(chatData) : chatData[i].date = day.date
            /\ day.count = CountOfDate(day.date)
            /\ \A i \in 1..Len(chatData) :
                  /\ CountOfDate(chatData[i].date) <= day.count
                  /\ CountOfDate(chatData[i].date) = day.count
                        => FirstOfDate(day.date) <= i

\* the tokens of more than minLength characters of every row of chatData
ChatTokens(minLength) ==
    [i \in 1..Len(chatData) |-> Tokens(chatData[i].message, minLength)]

\* the windows of `size` words in the rows of words, each <<row, position>>
Windows(words, size) ==
    UNION {{<<i, k>> : k \in 1..(Len(words[i]) - size + 1)} : i \in 1..Len(words)}

\* the words of a window, joined by single spaces
WindowPhrase(words, w, size) == JoinWords(SubSeq(words[w[1]], w[2], w[2] + size - 1), 1)

\* for every phrase of `size` words in the rows of words, how often it occurs
Occurrences(words, size) ==
    LET phraseAt == [w \in Windows(words, size) |-> WindowPhrase(words, w, size)]
    IN  [p \in {phraseAt[w] : w \in DOMAIN phraseAt} |->
            Cardinality({w \in DOMAIN phraseAt : phraseAt[w] = p})]

InTopPhrases == {stats[1].topPhrases[k].phrase : k \in 1..Len(stats[1].topPhrases)}

\* C12 as stated: a phrase of two words that occurs exactly twice is never in
\* topPhrases and one that occurs exactly three times always is.
C12_ThreeTimesAlwaysListed ==
    stats # <<>> =>
        LET twos == Occurrences(ChatTokens(1), 2)
        IN  \A p \in DOMAIN twos :
                /\ twos[p] = 2 => p \notin InTopPhrases
                /\ twos[p] = 3 => p \in InTopPhrases

\* C12, amended: a phrase of two words that occurs exactly twice is never in
\* topPhrases; one that occurs exactly three times is in topPhrases when no
\* more than 30 phrases of two or three words occur three times or more.
C12_ThreeTimesListedWithinThirty ==
    stats # <<>> =>
        LET twos == Occurrences(ChatTokens(1), 2)
            threes == Occurrences(ChatTokens(1), 3)
            frequent == Cardinality({p \in DOMAIN twos : twos[p] >= 3})
                            + Cardinality({p \in DOMAIN threes : threes[p] >= 3})
        IN  \A p \in DOMAIN twos :
                /\ twos[p] = 2 => p \notin InTopPhrases
                /\ (twos[p] = 3 /\ frequent <= 30) => p \in InTopPhrases

\* a dataset with a phrase that occurs three times and is listed and a phrase
\* that occurs twice
C12_Witness ==
    /\ stats # <<>>
    /\ LET twos == Occurrences(ChatTokens(1), 2)
       IN  \E p, q \in DOMAIN twos :
              twos[p] = 3 /\ p \in InTopPhrases /\ twos[q] = 2

\* C13: topWords has at most 30 entries, each a word of the dataset with the
\* number of its occurrences, in non-increasing order of count, and no word
\* left out occurs more often than a word of the list.
\* Fails: the word constructor is counted as NaN.
C13_TopWords ==
    stats # <<>> =>
        LET top == stats[1].topWords
            words == Occurrences(ChatTokens(2), 1)
        IN  /\ Len(top) <= 30
            /\ \A k \in 1..Len(top) :
                  /\ top[k].word \in DOMAIN words
                  /\ top[k].count = Num(words[top[k].word])
            /\ \A j, k \in 1..Len(top) :
                  j < k => Le(top[k].count, top[j].count)
            /\ \A w \in DOMAIN words :
                  (\A k \in 1..Len(top) : top[k].word # w) =>
                      \A k \in 1..Len(top) : Le(Num(words[w]), top[k].count)

\* x + y on numbers
Plus(x, y) == IF x.nan \/ y.nan THEN NaN ELSE Num(x.v + y.v)

\* the sum of the numbers of a sequence
RECURSIVE Total(_, _)
Total(nums, i) == IF i > Len(nums) THEN Num(0) ELSE Plus(nums[i], Total(nums, i + 1))

\* the pieces of a message between white space that are not empty
WordsOfMessage(message) == SelectSeq(SplitSpaces(message), LAMBDA piece : Len(piece) > 0)

\* the rows of chatData of a sender
RowsOfSender(sender) == {i \in 1..Len(chatData) : chatData[i].sender = sender}

\* C14: senderData has exactly one entry for every distinct sender string;
\* its message count is the number of rows of that sender, its word count
\* the number of non-empty pieces between white space in that sender's
\* messages; the message counts add up to the number of rows.
\* Fails: for the sender __proto__ the counts are not stored.
C14_SenderSummary ==
    stats # <<>> =>
        LET summary == stats[1].senderData
        IN  /\ \A i \in 1..Len(chatData) :
                  Cardinality({k \in 1..Len(summary) :
                                  summary[k].name = chatData[i].sender}) = 1
            /\ \A k \in 1..Len(summary) :
                  /\ RowsOfSender(summary[k].name) # {}
                  /\ summary[k].messages
                        = Num(Cardinality(RowsOfSender(summary[k].name)))
                  /\ summary[k].words
                        = Num(Cardinality(UNION
                             {{<<i, p>> : p \in 1..Len(WordsOfMessage(chatData[i].message))} :
                                 i \in RowsOfSender(summary[k].name)}))
            /\ Total([k \in 1..Len(summary) |-> summary[k].messages], 1)
                  = Num(Len(chatData))

\* C15: the hourly histogram has 24 entries for the hours 0..23; entry h is
\* the number of rows whose hour parses to h; a row whose hour is not
\* numeric or not in 0..23 is counted nowhere and fails nothing, and the
\* entries add up to no more than the number of rows.
C15_HourHistogram ==
    (lastLoad.ok /\ Len(chatData) > 0) =>
        /\ error = NoError
        /\ Len(stats) = 1
        /\ LET histogram == stats[1].hourData
           IN  /\ Len(histogram) = 24
               /\ \A k \in 1..24 :
                     /\ histogram[k].hour = k - 1
                     /\ histogram[k].count
                           = Cardinality({i \in 1..Len(chatData) :
                                 ParseInt(chatData[i].hour) = Num(k - 1)})
               /\ Le(Total([k \in 1..24 |-> Num(histogram[k].count)], 1),
                     Num(Len(chatData)))

\* a dataset with an hour that is not numeric, an hour out of range, and an
\* hour that is counted: the entries add up to less than the rows
C15_Witness ==
    /\ Len(stats) = 1
    /\ \E i, j \in 1..Len(chatData) :
          /\ ParseInt(chatData[i].hour).nan
          /\ GtInt(ParseInt(chatData[j].hour), 23)
    /\ stats[1].hourData[11].count = 1
    /\ Total([k \in 1..24 |-> Num(stats[1].hourData[k].count)], 1) = Num(1)

\* the code unit of a character of a month key
CharCode(c) ==
    IF c = "-" THEN 45
    ELSE IF IsDigit(c) THEN 48 + DigitVal(c)
    ELSE IF c = "N" THEN 78
    ELSE 97

\* a < b for strings, compared code unit by code unit
StringLess(a, b) ==
    \E i \in 1..Len(b) :
        /\ \A j \in 1..(i - 1) : j <= Len(a) /\ a[j] = b[j]
        /\ \/ i = Len(a) + 1
           \/ i <= Len(a) /\ CharCode(a[i]) < CharCode(b[i])

\* C16: the monthly timeline has one entry for every distinct month key of
\* the rows' timestamps, the entries are in strictly ascending order of the
\* key string, and their counts add up to the number of rows.
C16_MonthlyTimeline ==
    stats # <<>> =>
        LET timeline == stats[1].timelineData
            keys == {monthKey(chatData[i].datetime) : i \in 1..Len(chatData)}
        IN  /\ Len(timeline) = Cardinality(keys)
            /\ {timeline[k].month : k \in 1..Len(timeline)} = keys
            /\ \A j, k \in 1..Len(timeline) :
                  j < k => StringLess(timeline[j].month, timeline[k].month)
            /\ Total([k \in 1..Len(timeline) |-> timeline[k].count], 1)
                  = Num(Len(chatData))

\* a dataset of three months, one of them the month of an Invalid Date, and
\* a date whose month differs from the one its string shows
C16_Witness ==
    /\ Len(stats) = 1
    /\ Len(stats[1].timelineData) = 3
    /\ \E k \in 1..3 : stats[1].timelineData[k].month = <<"N", "a", "N", "-", "N", "a", "N">>
    /\ \E k \in 1..3 : stats[1].timelineData[k].month = <<"1", "9", "2", "3", "-", "1", "2">>

\* the sort key the daily timeline is to have for a date label: the date it
\* reads as day/month/year between slashes, the epoch for any other label
LabelKey(date) == IF sortDate(date).nan THEN Num(0) ELSE sortDate(date)

\* C17: the daily timeline has at most 30 entries, each a date label of the
\* dataset with its count, no label twice, in ascending order of the labels'
\* sort keys; every date is listed unless there are more than 30, and then
\* no date left out has a sort key above that of a listed date.
\* Fails: a label of three parts that are no numbers has an Invalid Date as
\* its key and stays where the sort finds it.
C17_DailyTimeline ==
    stats # <<>> =>
        LET daily == stats[1].dailyTimelineData
            dates == {chatData[i].date : i \in 1..Len(chatData)}
            listed == {daily[k].date : k \in 1..Len(daily)}
        IN  /\ Len(daily) <= 30
            /\ Len(daily) = Cardinality(listed)
            /\ listed \subseteq dates
            /\ \A k \in 1..Len(daily) :
                  daily[k].count = Num(CountOfDate(daily[k].date))
            /\ \A j, k \in 1..Len(daily) :
                  j < k => Le(LabelKey(daily[j].date), LabelKey(daily[k].date))
            /\ IF Cardinality(dates) <= 30 THEN listed = dates
               ELSE /\ Len(daily) = 30
                    /\ \A d \in dates \ listed : \A e \in listed :
                          Le(LabelKey(d), LabelKey(e))

\* the characters c and d are the same letter in either case, or the same
\* character
SameIgnoringCase(c, d) ==
    c = d \/ \E k \in 1..26 : {c, d} = {UpperChars[k], LowerChars[k]}

\* the positions of chatData whose message has the search text in it
\* somewhere, whatever the case of the letters
Hits ==
    {i \in 1..Len(chatData) :
        \E k \in 0..(Len(chatData[i].message) - Len(searchTerm)) :
            \A j \in 1..Len(searchTerm) :
                SameIgnoringCase(chatData[i].message[k + j], searchTerm[j])}

\* the k-th position of the set of positions S, counted from the lowest
Nth(S, k) == CHOOSE i \in S : Cardinality({j \in S : j < i}) = k - 1

\* C18: for every search text the filtered view holds exactly the records of
\* chatData whose message contains the text case-insensitively, in the order
\* they have in chatData; for the empty text it is chatData.
C18_SearchFilter ==
    /\ Len(filteredChatData) = Cardinality(Hits)
    /\ \A k \in 1..Len(filteredChatData) :
          filteredChatData[k] = chatData[Nth(Hits, k)]
    /\ searchTerm = <<>> => filteredChatData = chatData

\* a search in other case than the messages finds two of three records, one
\* of them written in capitals
C18_Witness ==
    /\ searchTerm = <<"H", "e", "L", "L", "o">>
    /\ Len(chatData) = 3
    /\ Len(filteredChatData) = 2
    /\ \E k \in 1..2 :
          filteredChatData[k].message = <<"s", "a", "y", " ", "H", "E", "L", "L", "O">>

\* the position in the filtered view of the first record with the date d
FirstShown(d) ==
    CHOOSE i \in 1..Len(filteredChatData) :
        /\ filteredChatData[i].date = d
        /\ \A j \in 1..(i - 1) : filteredChatData[j].date # d

\* the position of the record msg in the filtered view
ShownAt(msg) == CHOOSE i \in 1..Len(filteredChatData) : filteredChatData[i] = msg

\* the records of the groups from group g on, one group after the other
RECURSIVE GroupsJoined(_, _)
GroupsJoined(groups, g) ==
    IF g > Len(groups) THEN <<>>
    ELSE groups[g].value \o GroupsJoined(groups, g + 1)

\* the records of one date follow each other in the filtered view
ShownByDate ==
    \A i, j, k \in 1..Len(filteredChatData) :
        (i < j /\ j < k /\ filteredChatData[i].date = filteredChatData[k].date)
            => filteredChatData[j].date = filteredChatData[i].date

\* C19: the groups of the chat view partition the filtered view by date:
\* every record is in exactly one group, the one keyed by its date; the
\* groups come in the order their dates first appear in the view; records
\* keep their order inside a group; so the groups of a view whose dates
\* follow each other, joined, are the view.
\* Fails: the groups are the properties of a plain object, and Object.entries
\* lists a date that is written as a plain number before the dates met
\* earlier.
C19_GroupingView ==
    LET groups == DateGroups
        held == {p \in {<<g, k>> : g \in 1..Len(groups),
                                    k \in 1..Len(filteredChatData)} :
                    p[2] <= Len(groups[p[1]].value)}
    IN  /\ \A p \in held :
              /\ \E i \in 1..Len(filteredChatData) :
                    filteredChatData[i] = groups[p[1]].value[p[2]]
              /\ groups[p[1]].value[p[2]].date = groups[p[1]].key
        /\ \A i \in 1..Len(filteredChatData) :
              Cardinality({p \in held :
                  groups[p[1]].value[p[2]] = filteredChatData[i]}) = 1
        /\ \A g \in 1..Len(groups) : Len(groups[g].value) > 0
        /\ \A g, h \in 1..Len(groups) :
              g < h => FirstShown(groups[g].key) < FirstShown(groups[h].key)
        /\ \A p, q \in held :
              (p[1] = q[1] /\ p[2] < q[2])
                  => ShownAt(groups[p[1]].value[p[2]])
                         < ShownAt(groups[q[1]].value[q[2]])
        /\ ShownByDate => GroupsJoined(groups, 1) = filteredChatData

\* C21: calculateStats leaves the message sequence alone and writes no
\* state but stats: when an upload that passes the schema check completes,
\* chatData holds the records as they were sorted before calculateStats ran,
\* every field as mapped from the file's row, stats is unchanged or the
\* statistics of that sequence, and neither the error nor the search text
\* has changed.
C21_StatsLeavesData ==
    [][\A r \in readers :
          (LoadStep(r) /\ AllColumns \subseteq r.file.fields) =>
              /\ chatData' \in SortOutcomes(lastLoad'.mapped)
              /\ \A i \in 1..Len(chatData') :
                    \E row \in {PapaParse(r.file).data[chatData'[i].n]} :
                        /\ chatData'[i].date = row.date
                        /\ chatData'[i].time = row.time
                        /\ chatData'[i].hour = row.hour
                        /\ chatData'[i].weekday = row.weekday
                        /\ chatData'[i].sender = row.sender
                        /\ chatData'[i].message = row.message
              /\ \/ stats' = stats
                 \/ Len(stats') = 1 /\ stats'[1] \in StatsOutcomes(chatData')
              /\ error' = error
              /\ searchTerm' = searchTerm]_vars

\* C21 witness: statistics were made of three records that the sort had put
\* in another order than the file's
C21_Witness ==
    /\ lastLoad.ok
    /\ Len(chatData) = 3
    /\ chatData # lastLoad.mapped
    /\ chatData \in SortOutcomes(lastLoad.mapped)
    /\ stats # <<>>
    /\ statsOf = lastLoad.id

\* C22: calculateStats on an empty sequence is a no-op: when the upload of
\* a file without rows passes the schema check, stats stays what it was, as
\* does every variable that the complete callback does not set itself.
C22_EmptyIsNoOp ==
    [][\A r \in readers :
          (/\ LoadStep(r)
           /\ AllColumns \subseteq r.file.fields
           /\ Len(PapaParse(r.file).data) = 0) =>
              /\ stats' = stats
              /\ error' = error
              /\ searchTerm' = searchTerm
              /\ clock' = clock
              /\ chatData' = <<>>]_vars

\* C22 witness: a file without rows was ingested while the statistics of an
\* earlier file were held, and they still are
C22_Witness ==
    /\ lastLoad.ok
    /\ lastLoad.mapped = <<>>
    /\ chatData = <<>>
    /\ stats # <<>>
    /\ statsOf # lastLoad.id

\* the positions of the lines of the file that are not empty
RowLines(file) == {k \in 1..Len(file.data) : file.data[k] # BlankLine}

\* C23: when an upload passes the schema check, the stored sequence is a
\* permutation of the file's rows, the empty lines left out: as many records
\* as rows, every row in exactly one record, and the record's date, time,
\* hour, weekday, sender and message are the row's.
C23_RecordsAreTheRows ==
    [][\A r \in readers :
          (LoadStep(r) /\ AllColumns \subseteq r.file.fields) =>
              /\ Len(chatData') = Cardinality(RowLines(r.file))
              /\ \E f \in [1..Len(chatData') -> RowLines(r.file)] :
                    /\ \A i, j \in 1..Len(chatData') : f[i] = f[j] => i = j
                    /\ \A i \in 1..Len(chatData') :
                          /\ chatData'[i].date = r.file.data[f[i]].date
                          /\ chatData'[i].time = r.file.data[f[i]].time
                          /\ chatData'[i].hour = r.file.data[f[i]].hour
                          /\ chatData'[i].weekday = r.file.data[f[i]].weekday
                          /\ chatData'[i].sender = r.file.data[f[i]].sender
                          /\ chatData'[i].message = r.file.data[f[i]].message]_vars

\* C23 witness: a file with an empty line between its rows, with a row of
\* empty fields and with rows out of order was ingested: three records that
\* are not in the order of the file
C23_Witness ==
    /\ lastLoad.ok
    /\ \E file \in pool :
          /\ RowLines(file) = {1, 3, 4}
          /\ file.data[4].date = <<>>
    /\ Len(chatData) = 3
    /\ chatData[1].n # 1

\* the sum of a sequence of natural numbers
SumOf(nums) ==
    Cardinality(UNION {{<<k, j>> : j \in 1..nums[k]} : k \in 1..Len(nums)})

\* the windows of `size` consecutive tokens in a message of n tokens
WindowCount(n, size) == IF n >= size THEN n - size + 1 ELSE 0

\* C24: the phrases counted are the windows of two and of three consecutive
\* tokens (of more than one character) of each message by itself, joined by
\* single spaces: a message of n tokens adds max(n-1, 0) + max(n-2, 0) to
\* the counts, every phrase is counted as often as it occurs as a window
\* inside a message, and topPhrases shows these counts.
C24_PhrasesPerMessage ==
    stats # <<>> =>
        LET words == ChatTokens(1)
            twos == Occurrences(words, 2)
            threes == Occurrences(words, 3)
            counted == phraseCounts(chatData)
            top == stats[1].topPhrases
            count(p) == IF p \in DOMAIN twos THEN twos[p] ELSE threes[p]
        IN  /\ {counted[k].key : k \in 1..Len(counted)}
                  = DOMAIN twos \cup DOMAIN threes
            /\ Len(counted) = Cardinality(DOMAIN twos \cup DOMAIN threes)
            /\ \A k \in 1..Len(counted) :
                  counted[k].value = Num(count(counted[k].key))
            /\ SumOf([k \in 1..Len(counted) |-> counted[k].value.v])
                  = SumOf([i \in 1..Len(words) |->
                              WindowCount(Len(words[i]), 2)
                                  + WindowCount(Len(words[i]), 3)])
            /\ \A k \in 1..Len(top) :
                  /\ top[k].phrase \in DOMAIN twos \cup DOMAIN threes
                  /\ top[k].count = Num(count(top[k].phrase))

\* C24 witness: statistics of three messages, one empty, one of two tokens
\* and one of three, where the last token of a message and the first of the
\* next make no phrase
C24_Witness ==
    /\ stats # <<>>
    /\ Len(chatData) = 3
    /\ LET words == ChatTokens(1)
           counted == phraseCounts(chatData)
       IN  /\ {Len(words[i]) : i \in 1..3} = {0, 2, 3}
           /\ \E i \in 1..2 :
                 /\ Len(words[i]) > 0
                 /\ Len(words[i + 1]) > 0
                 /\ \A k \in 1..Len(counted) :
                       counted[k].key #
                           words[i][Len(words[i])] \o <<" ">> \o words[i + 1][1]

\* the records of chatData whose message is not empty
WithMessage == SelectSeq(chatData, LAMBDA msg : msg.message # <<>>)

\* C25: a record with an empty message does not stop the aggregation and
\* adds nothing to the word counts of the senders, to the words and to the
\* phrases: the statistics object is made, and these three fields are what
\* the records with a message alone give (no words and a count of 0 for a
\* sender without any).
C25_EmptyMessageSkipped ==
    (lastLoad.ok /\ Len(chatData) > 0) =>
        /\ Len(stats) = 1
        /\ statsOf = lastLoad.id
        /\ stats[1].topWords \in topWordsOutcomes(WithMessage)
        /\ stats[1].topPhrases = topPhrases(WithMessage)
        /\ \A k \in 1..Len(stats[1].senderData) :
              LET entry == stats[1].senderData[k]
                  rest == senderData(WithMessage)
              IN  IF \E j \in 1..Len(rest) : rest[j].name = entry.name
                  THEN \E j \in 1..Len(rest) :
                          /\ rest[j].name = entry.name
                          /\ rest[j].words = entry.words
                  ELSE entry.words = Num(0)

\* C25 witness: statistics of three records, an empty message between two
\* messages with words
C25_Witness ==
    /\ lastLoad.ok
    /\ Len(stats) = 1
    /\ Len(chatData) = 3
    /\ chatData[2].message = <<>>
    /\ chatData[1].message # <<>>
    /\ chatData[3].message # <<>>
    /\ Len(stats[1].topWords) > 0
    /\ Len(stats[1].topPhrases) > 0

\* the date string is three numbers separated by slashes
ThreeNumbers(date) ==
    LET parts == Split(date, "/")
    IN  /\ Len(parts) = 3
        /\ \A k \in 1..3 :
              Len(parts[k]) > 0 /\ \A i \in 1..Len(parts[k]) : IsDigit(parts[k][i])

\* C26: when every date of the dataset is three numbers separated by
\* slashes, the daily timeline is in the order of the records' timestamps:
\* of two dates in the timeline, no record of the one placed earlier has a
\* later timestamp than a record of the other.
\* Fails: parseDate adds 2000 to a year of two digits (day up to 12), the
\* sort key of the daily timeline leaves it to new Date, which adds 1900.
C26_PathsAgreeOnOrder ==
    (/\ stats # <<>>
     /\ statsOf = chatOf
     /\ \A i \in 1..Len(chatData) : ThreeNumbers(chatData[i].date)) =>
        LET daily == stats[1].dailyTimelineData
        IN  \A j, k \in 1..Len(daily) :
                j < k =>
                    \A a, b \in 1..Len(chatData) :
                        (/\ chatData[a].date = daily[j].date
                         /\ chatData[b].date = daily[k].date)
                            => Le(chatData[a].datetime, chatData[b].datetime)

\* C27: the chat and statistics tabs are shown only when a file is
\* uploaded; fileUploaded becomes true only when an upload passes the schema
\* check and is stored, and no step sets it back to false.
C27_TabsNeedUpload ==
    /\ [](activeTab \in {"chat", "statistics"} => fileUploaded)
    /\ [][/\ fileUploaded => fileUploaded'
          /\ (~fileUploaded /\ fileUploaded') =>
                \E r \in readers :
                    /\ LoadStep(r)
                    /\ AllColumns \subseteq r.file.fields
                    /\ chatOf' = r.id]_vars

\* C27 witness: with a dataset on the statistics tab, a second upload has
\* failed
C27_Witness ==
    /\ fileUploaded
    /\ activeTab = "statistics"
    /\ lastLoad.id = 2
    /\ ~lastLoad.ok
    /\ error # NoError
    /\ chatOf = 1

\* C28: loading is true whenever an upload that passed the file type check
\* is being read, its callback not yet run, also with several uploads in
\* flight.
\* Fails: the callback of one upload sets loading to false while another
\* upload is still being read, and so does the choice of a file that is no
\* CSV.
C28_LoadingWhileReading == readers # {} => loading

\* C29: whenever an upload completes successfully (its records are stored
\* and the tab becomes 'chat'), the error message is empty in the resulting
\* state, whatever other uploads started or failed in between.
\* Fails: the success branch of the callback never clears the error, so the
\* message of a failure that came after the start of the upload remains.
C29_SuccessClearsError ==
    [][\A r \in readers :
          (LoadStep(r) /\ chatOf' = r.id /\ activeTab' = "chat")
              => error' = NoError]_vars

\* C30: when two valid uploads are in flight at once, the records held after
\* both have completed are those of the upload started last, in whatever
\* order the two reads finish.  Stated on the step that completes the second
\* of the two when the upload started later has completed first: the records
\* held, which are those of the later upload, stay.
\* Fails: each callback stores its own records, so the read that finishes
\* last wins, and that can be the upload started first.
C30_LastStartedWins ==
    [][\A r \in readers :
          (LoadStep(r) /\ chatOf' = r.id /\ readers = {r} /\ chatOf > r.id)
              => chatData' = chatData]_vars

====
